---- MODULE Spec2Model ----
(***************************************************************************)
(* Model of Documentation/scripts/nest-toc.py: the DocFX toc.yml           *)
(* post-processor (parse_toc -> nest_items -> write_toc, driven by main).  *)
(*                                                                         *)
(* Representation.                                                         *)
(*  - A Python str is the sequence of its characters (1-character TLA+     *)
(*    strings); the Python object None is the value None below, which is   *)
(*    no character sequence.                                               *)
(*  - A text is the sequence of its lines, as content.split('\n') yields   *)
(*    them.  A line is what parse_toc looks at: its indentation            *)
(*    (len(line) - len(line.lstrip())), the marker its stripped form       *)
(*    starts with (tag) and the text left once the marker is removed and   *)
(*    the rest stripped (val).  Values of the model hold no blanks and no  *)
(*    marker text.                                                         *)
(*  - A dict without the key 'children' is a record whose children field   *)
(*    is the empty sequence (the code never stores an empty list there).   *)
(***************************************************************************)
EXTENDS Integers, Sequences, FiniteSets, TLC

VARIABLES
    file,        \* toc_path on disk: [exists, text]
    pc,          \* position of main: start, nest, write, done, exited, raised
    stdout,      \* what main printed in this invocation
    exitCode,    \* exit status of this invocation (-1 while running)
    reads,       \* toc_path.read_text() calls of this invocation
    writes,      \* toc_path.write_text() calls of this invocation
    content,     \* main's local: the text read
    namespaces,  \* main's local: parse_toc's result, as returned (before nest_items mutates it)
    scanned,     \* the item lists nest_items scanned, as its first pass left them
    nested,      \* main's local: nest_items' result
    outputs,     \* the texts written by the invocations so far, oldest first
    runs         \* invocations started so far

vars == <<file, pc, stdout, exitCode, reads, writes, content, namespaces,
          scanned, nested, outputs, runs>>

-----------------------------------------------------------------------------
(* Bounds *)

MaxNs == 2      \* namespaces in the generated document
MaxItems == 3   \* items in the generated document, all namespaces together
MaxRuns == 2    \* invocations of the tool on the same file

-----------------------------------------------------------------------------
(* Values *)

None == <<"<None>">>

Dot == "."

NameA == <<"A">>
NameAB == <<"A", ".", "B">>
NameABC == <<"A", ".", "B", ".", "C">>

Names == {NameA, NameAB, NameABC}

\* str(x) as an f-string formats it
Fmt(v) == IF v = None THEN <<"N", "o", "n", "e">> ELSE v

Digit(i) == <<"0", "1", "2", "3", "4", "5", "6", "7", "8", "9">>[i + 1]

Line(indent, tag, val) == [indent |-> indent, tag |-> tag, val |-> val]

HeaderLine == Line(0, "###", <<"Y">>)
BlankLine == Line(0, "", <<>>)

-----------------------------------------------------------------------------
(* parse_toc *)

\* the namespace dict parse_toc creates at an indentation-0 '- uid:' line
NewNamespace(uid) == [uid |-> uid, name |-> None, type |-> None, items |-> <<>>]

\* the item dict parse_toc creates at an indentation-2 '- uid:' line
NewItem(uid) == [uid |-> uid, name |-> None, type |-> None, children |-> <<>>]

\* The parser's locals before the loop: result, current_namespace (<<>> is
\* None, <<ns>> a namespace), current_item (item: whether it is set; it is then
\* the last dict of current_namespace['items'], the same object), and whether
\* a TypeError was raised.
ParseStart == [result |-> <<>>, cur |-> <<>>, item |-> FALSE, raised |-> FALSE]

SetLastItem(ns, field, val) ==
    LET n == Len(ns.items)
    IN  [ns EXCEPT !.items[n] = [@ EXCEPT ![field] = val]]

\* item fields: assigned at every indentation-4 'name:' / 'type:' line
ItemField(st, field, val) ==
    [st EXCEPT !.cur = <<SetLastItem(st.cur[1], field, val)>>]

\* namespace fields: assigned only while the field is still None
NamespaceField(st, field, val) ==
    [st EXCEPT !.cur = <<[st.cur[1] EXCEPT ![field] = val]>>]

\* one iteration of the while loop on `line`
ParseLine(st, line) ==
    IF line.tag = "" \/ line.tag = "###" THEN st
    ELSE IF line.tag = "items:" /\ line.indent = 0 THEN st
    ELSE IF line.tag = "- uid:" /\ line.indent = 0 THEN
        [st EXCEPT !.result = IF st.cur # <<>> THEN Append(@, st.cur[1]) ELSE @,
                   !.cur = <<NewNamespace(line.val)>>,
                   !.item = FALSE]
    ELSE IF line.tag = "name:" /\ line.indent = 2 /\ st.cur # <<>>
            /\ st.cur[1].name = None THEN
        NamespaceField(st, "name", line.val)
    ELSE IF line.tag = "type:" /\ line.indent = 2 /\ st.cur # <<>>
            /\ st.cur[1].type = None THEN
        NamespaceField(st, "type", line.val)
    ELSE IF line.tag = "items:" /\ line.indent = 2 THEN st
    ELSE IF line.tag = "- uid:" /\ line.indent = 2 THEN
        IF st.cur = <<>>
        THEN [st EXCEPT !.raised = TRUE]   \* None['items']: TypeError
        ELSE [st EXCEPT !.cur = <<[st.cur[1] EXCEPT !.items = Append(@, NewItem(line.val))]>>,
                        !.item = TRUE]
    ELSE IF line.tag = "name:" /\ line.indent = 4 /\ st.item THEN
        ItemField(st, "name", line.val)
    ELSE IF line.tag = "type:" /\ line.indent = 4 /\ st.item THEN
        ItemField(st, "type", line.val)
    ELSE st

RECURSIVE ParseFrom(_, _, _)
ParseFrom(lines, i, st) ==
    IF i > Len(lines) \/ st.raised THEN st
    ELSE ParseFrom(lines, i + 1, ParseLine(st, lines[i]))

\* parse_toc(content): [raised, value]
parse_toc(text) ==
    LET st == ParseFrom(text, 1, ParseStart)
    IN  [raised |-> st.raised,
         value |-> IF st.raised THEN <<>>
                   ELSE IF st.cur # <<>> THEN Append(st.result, st.cur[1])
                   ELSE st.result]

-----------------------------------------------------------------------------
(* nest_items *)

\* '.' in name
HasDot(name) == \E k \in 1..Len(name) : name[k] = Dot

\* index of the last '.' of name
LastDot(name) ==
    CHOOSE k \in 1..Len(name) :
        name[k] = Dot /\ \A m \in (k + 1)..Len(name) : name[m] # Dot

\* a plausible slip: name.split('.', 1), which cuts at the first '.'
split_first(name) ==
    LET k == CHOOSE j \in 1..Len(name) :
                 name[j] = Dot /\ \A m \in 1..(j - 1) : name[m] # Dot
    IN  <<SubSeq(name, 1, k - 1), SubSeq(name, k + 1, Len(name))>>

\* name.rsplit('.', 1) of a name that holds a '.': <<parent_name, child_name>>
rsplit(name) ==
    LET k == LastDot(name)
    IN  <<SubSeq(name, 1, k - 1), SubSeq(name, k + 1, Len(name))>>

\* a plausible slip: the child keeps the item's full name
ChildRecordFullName(item, child_name) ==
    [uid |-> item.uid, name |-> item.name, type |-> item.type, children |-> <<>>]

\* the dict appended to the parent's 'children'
ChildRecord(item, child_name) ==
    [uid |-> item.uid, name |-> child_name, type |-> item.type, children |-> <<>>]

\* the inner loop: index of the first item named parent_name, 0 when none
FindParent(items, parent_name) ==
    IF \E j \in 1..Len(items) : items[j].name = parent_name
    THEN CHOOSE j \in 1..Len(items) :
             /\ items[j].name = parent_name
             /\ \A m \in 1..(j - 1) : items[m].name # parent_name
    ELSE 0

\* one iteration of the first pass, on the i-th item of the list being
\* scanned; sc is [items, nested_names, raised], and sc.items are the very
\* dicts the loop iterates over, children appended in place
ScanItem(sc, i) ==
    LET item == sc.items[i]
        name == item.name
    IN  IF name = None THEN [sc EXCEPT !.raised = TRUE]   \* '.' in None: TypeError
        ELSE IF ~HasDot(name) THEN sc
        ELSE LET parts == rsplit(name)
                 j == FindParent(sc.items, parts[1])
             IN  IF j = 0 THEN sc
                 ELSE [sc EXCEPT !.items[j].children = Append(@, ChildRecord(item, parts[2])),
                                 !.nested_names = @ \cup {name}]

RECURSIVE ScanFrom(_, _)
ScanFrom(sc, i) ==
    IF i > Len(sc.items) \/ sc.raised THEN sc
    ELSE ScanFrom(ScanItem(sc, i), i + 1)

\* the first pass over one namespace's items
FirstPass(items) ==
    ScanFrom([items |-> items, nested_names |-> {}, raised |-> FALSE], 1)

\* the second pass: the items whose name was not marked nested
SecondPass(sc) ==
    SelectSeq(sc.items, LAMBDA item : item.name \notin sc.nested_names)

\* the body of the loop over namespaces, for one namespace:
\* [raised, ns (the namespace afterwards), scanned (its item dicts after the first pass)]
NestNamespace(ns) ==
    IF ns.items = <<>> THEN [raised |-> FALSE, ns |-> ns, scanned |-> <<>>]
    ELSE LET sc == FirstPass(ns.items)
         IN  [raised |-> sc.raised,
              ns |-> IF sc.raised THEN ns ELSE [ns EXCEPT !.items = SecondPass(sc)],
              scanned |-> sc.items]

\* nest_items(namespaces): [raised, value, scanned]; the loop stops at the
\* first namespace that raises
nest_items(nss) ==
    LET per == [n \in 1..Len(nss) |-> NestNamespace(nss[n])]
        bad == \E n \in 1..Len(nss) : per[n].raised
    IN  [raised |-> bad,
         value |-> IF bad THEN <<>> ELSE [n \in 1..Len(nss) |-> per[n].ns],
         scanned |-> IF bad THEN <<>> ELSE [n \in 1..Len(nss) |-> per[n].scanned]]

-----------------------------------------------------------------------------
(* write_toc *)

\* write_item(item, indent): the lines it appends
RECURSIVE write_item(_, _)
RECURSIVE write_children(_, _, _)
write_children(children, i, indent) ==
    IF i > Len(children) THEN <<>>
    ELSE write_item(children[i], indent) \o write_children(children, i + 1, indent)

write_item(item, indent) ==
    <<Line(2 * indent, "- uid:", Fmt(item.uid)),
      Line(2 * indent + 2, "name:", Fmt(item.name)),
      Line(2 * indent + 2, "type:", Fmt(item.type))>>
    \o (IF item.children # <<>>
        THEN <<Line(2 * indent + 2, "items:", <<>>)>>
             \o write_children(item.children, 1, indent + 1)
        ELSE <<>>)

\* the lines write_toc appends for one namespace
write_namespace(ns) ==
    <<Line(0, "- uid:", Fmt(ns.uid)),
      Line(2, "name:", Fmt(ns.name)),
      Line(2, "type:", Fmt(ns.type))>>
    \o (IF ns.items # <<>>
        THEN <<Line(2, "items:", <<>>)>> \o write_children(ns.items, 1, 1)
        ELSE <<>>)

RECURSIVE write_namespaces(_, _)
write_namespaces(nss, n) ==
    IF n > Len(nss) THEN <<>>
    ELSE write_namespace(nss[n]) \o write_namespaces(nss, n + 1)

\* write_toc(namespaces): '\n'.join(lines) + '\n', whose split('\n') ends
\* with an empty line
write_toc(nss) ==
    <<HeaderLine, Line(0, "items:", <<>>)>> \o write_namespaces(nss, 1) \o <<BlankLine>>

-----------------------------------------------------------------------------
(* The documents main may find at toc_path *)

ItemUid(i) == <<"u", Digit(i)>>
ItemType(i) == IF i % 2 = 1 THEN <<"C", "l", "s">> ELSE <<"S", "t", "r">>
NamespaceUid(n) == <<"N", Digit(n)>>
NamespaceType == <<"N", "s">>

\* A generated forest: m namespaces, and k items named names[1..k] of which
\* the i-th belongs to namespace nsOf[i] (nsOf is nondecreasing).
GenItems(names, nsOf, n) ==
    LET all == [i \in 1..Len(names) |->
                   [uid |-> ItemUid(i), name |-> names[i], type |-> ItemType(i),
                    children |-> <<>>, ns |-> nsOf[i]]]
        mine == SelectSeq(all, LAMBDA it : it.ns = n)
    IN  [i \in 1..Len(mine) |->
            [uid |-> mine[i].uid, name |-> mine[i].name, type |-> mine[i].type,
             children |-> <<>>]]

GenForest(m, names, nsOf) ==
    [n \in 1..m |->
        [uid |-> NamespaceUid(n), name |-> NamespaceUid(n), type |-> NamespaceType,
         items |-> GenItems(names, nsOf, n)]]

GenForests ==
    UNION { UNION { { GenForest(m, names, nsOf) :
                        nsOf \in { f \in [1..k -> 1..m] :
                                     \A i \in 1..(k - 1) : f[i] <= f[i + 1] } } :
                    names \in [1..k -> Names] } :
            m \in 0..MaxNs, k \in 0..MaxItems }

\* the flat toc.yml DocFX generates for a forest: header, 'items:', and per
\* namespace its three fields and its items two columns in
GenDoc(forest) == write_toc(forest)

\* the line a hand edit may add: an item-level 'name:' field, which repeats
\* the field where it lands after an item's entry start and is of no use to
\* the parser anywhere else
ExtraLines ==
    { Line(4, "name:", <<"X">>) }

DeleteLine(doc, k) == SubSeq(doc, 1, k - 1) \o SubSeq(doc, k + 1, Len(doc))
InsertLine(doc, k, line) == SubSeq(doc, 1, k) \o <<line>> \o SubSeq(doc, k + 1, Len(doc))

\* what may have happened to a generated document before the tool runs:
\* nothing, one line removed, or one line added
EditsOf(doc) ==
    {[op |-> "none", at |-> 0, line |-> BlankLine]}
    \cup { [op |-> "delete", at |-> k, line |-> BlankLine] : k \in 1..Len(doc) }
    \cup { [op |-> "insert", at |-> k, line |-> l] : k \in 0..Len(doc), l \in ExtraLines }

ApplyEdit(doc, e) ==
    IF e.op = "delete" THEN DeleteLine(doc, e.at)
    ELSE IF e.op = "insert" THEN InsertLine(doc, e.at, e.line)
    ELSE doc

-----------------------------------------------------------------------------
(* main *)

Init ==
    /\ \/ file = [exists |-> FALSE, text |-> <<>>]
       \/ \E f \in GenForests :
             \E e \in EditsOf(GenDoc(f)) :
                file = [exists |-> TRUE, text |-> ApplyEdit(GenDoc(f), e)]
    /\ pc = "start"
    /\ stdout = <<>>
    /\ exitCode = -1
    /\ reads = 0
    /\ writes = 0
    /\ content = <<>>
    /\ namespaces = <<>>
    /\ scanned = <<>>
    /\ nested = <<>>
    /\ outputs = <<>>
    /\ runs = 1

\* if not toc_path.exists(): print the error, sys.exit(1)
MainMissing ==
    /\ pc = "start"
    /\ ~file.exists
    /\ stdout' = Append(stdout, "Error: not found")
    /\ exitCode' = 1
    /\ pc' = "exited"
    /\ UNCHANGED <<file, reads, writes, content, namespaces, scanned, nested, outputs, runs>>

\* the file exists: print the processing message;
\* content = toc_path.read_text(); namespaces = parse_toc(content)
MainParse ==
    /\ pc = "start"
    /\ file.exists
    /\ stdout' = Append(stdout, "Processing")
    /\ content' = file.text
    /\ reads' = reads + 1
    /\ LET r == parse_toc(file.text)
       IN  IF r.raised
           THEN /\ pc' = "raised"
                /\ exitCode' = 1
                /\ UNCHANGED namespaces
           ELSE /\ pc' = "nest"
                /\ namespaces' = r.value
                /\ UNCHANGED exitCode
    /\ UNCHANGED <<file, writes, scanned, nested, outputs, runs>>

\* nested = nest_items(namespaces)
MainNest ==
    /\ pc = "nest"
    /\ LET r == nest_items(namespaces)
       IN  IF r.raised
           THEN /\ pc' = "raised"
                /\ exitCode' = 1
                /\ UNCHANGED <<nested, scanned>>
           ELSE /\ pc' = "write"
                /\ nested' = r.value
                /\ scanned' = r.scanned
                /\ UNCHANGED exitCode
    /\ UNCHANGED <<file, stdout, reads, writes, content, namespaces, outputs, runs>>

\* output = write_toc(nested); toc_path.write_text(output); print success
MainWrite ==
    /\ pc = "write"
    /\ LET output == write_toc(nested)
       IN  /\ file' = [exists |-> TRUE, text |-> output]
           /\ outputs' = Append(outputs, output)
    /\ writes' = writes + 1
    /\ stdout' = Append(stdout, "TOC restructured successfully!")
    /\ exitCode' = 0
    /\ pc' = "done"
    /\ UNCHANGED <<reads, content, namespaces, scanned, nested, runs>>

\* the tool is run again on the file it left (the build step is repeated)
Rerun ==
    /\ pc = "done"
    /\ runs < MaxRuns
    /\ runs' = runs + 1
    /\ pc' = "start"
    /\ stdout' = <<>>
    /\ exitCode' = -1
    /\ reads' = 0
    /\ writes' = 0
    /\ content' = <<>>
    /\ namespaces' = <<>>
    /\ scanned' = <<>>
    /\ nested' = <<>>
    /\ UNCHANGED <<file, outputs>>

Next ==
    \/ MainMissing
    \/ MainParse
    \/ MainNest
    \/ MainWrite
    \/ Rerun

Spec == Init /\ [][Next]_vars

-----------------------------------------------------------------------------
(* Reading a text as the tree its indentation spells, for the properties *)

IsEntry(t, k) == t[k].tag = "- uid:"

EntryLines(t) == { k \in 1..Len(t) : IsEntry(t, k) }

FieldOf(t, k, tag) ==
    LET at == IF tag = "name:" THEN k + 1 ELSE k + 2
    IN  IF at <= Len(t) /\ t[at].tag = tag /\ t[at].indent = t[k].indent + 2
        THEN t[at].val ELSE None

\* the entry that encloses entry k: the nearest entry above it that is less
\* indented (0 when there is none)
ParentEntry(t, k) ==
    LET above == { j \in EntryLines(t) : j < k /\ t[j].indent < t[k].indent }
    IN  IF above = {} THEN 0 ELSE CHOOSE j \in above : \A m \in above : m <= j

\* the position, among the top-level entries, of the one entry k lies in
NamespaceIndex(t, k) ==
    Cardinality({ j \in EntryLines(t) : j <= k /\ t[j].indent = 0 })

\* q is p, a dot, and a suffix without dots
QualifiedBy(q, p) ==
    \E k \in 1..Len(q) :
        /\ q[k] = Dot
        /\ SubSeq(q, 1, k - 1) = p
        /\ \A m \in (k + 1)..Len(q) : q[m] # Dot

SuffixOf(q) ==
    LET k == CHOOSE j \in 1..Len(q) : q[j] = Dot /\ \A m \in (j + 1)..Len(q) : q[m] # Dot
    IN  SubSeq(q, k + 1, Len(q))

Triple(it) == [uid |-> it.uid, name |-> it.name, type |-> it.type]

Triples(items) == [i \in 1..Len(items) |-> Triple(items[i])]

Child(it, name) == [uid |-> it.uid, name |-> name, type |-> it.type, children |-> <<>>]

Nested == pc \in {"write", "done"}

Terminated == pc \in {"exited", "raised", "done"}

-----------------------------------------------------------------------------
(* Properties *)

\* C1: once main is done, for every namespace and every two of its parsed
\* items named P and P.C, the text written holds, inside that namespace, an
\* entry named C with the uid and type of the P.C item whose enclosing entry
\* is that of an item named P, and holds no item-level entry named P.C there.
C1_ChildUnderParent ==
    pc = "done" =>
        \A n \in 1..Len(namespaces) :
            LET its == namespaces[n].items
                out == file.text
            IN  \A i, j \in 1..Len(its) :
                    QualifiedBy(its[j].name, its[i].name) =>
                        /\ \E k \in EntryLines(out) :
                              /\ NamespaceIndex(out, k) = n
                              /\ out[k].val = Fmt(its[j].uid)
                              /\ FieldOf(out, k, "name:") = SuffixOf(its[j].name)
                              /\ FieldOf(out, k, "type:") = Fmt(its[j].type)
                              /\ ParentEntry(out, k) # 0
                              /\ \E p \in 1..Len(its) :
                                    /\ its[p].name = its[i].name
                                    /\ out[ParentEntry(out, k)].val = Fmt(its[p].uid)
                        /\ ~ \E k \in EntryLines(out) :
                              /\ NamespaceIndex(out, k) = n
                              /\ out[k].indent = 2
                              /\ FieldOf(out, k, "name:") = its[j].name

\* C2: once nest_items has returned, the namespaces are the parsed ones in
\* the same order, and each namespace's top-level items are, in their original
\* order and with their original uid, name and type, exactly the parsed items
\* that are not named P.C for an item named P of the same namespace.
C2_TopLevelIsKeptSubsequence ==
    Nested =>
        /\ Len(nested) = Len(namespaces)
        /\ \A n \in 1..Len(namespaces) :
              LET its == namespaces[n].items
                  Kept(t) == ~ \E i \in 1..Len(its) : QualifiedBy(t.name, its[i].name)
              IN  /\ Triple(nested[n]) = Triple(namespaces[n])
                  /\ Triples(nested[n].items) = SelectSeq(Triples(its), Kept)

\* C2 witness: nest_items has returned; one namespace lost an item to nesting
\* and another keeps a dotted item at the top level although the first holds
\* an item of its parent's name.
C2_Witness ==
    /\ pc = "write"
    /\ \E n, m \in 1..Len(namespaces) :
          /\ n # m
          /\ Len(nested[n].items) < Len(namespaces[n].items)
          /\ \E i \in 1..Len(nested[m].items), p \in 1..Len(namespaces[n].items) :
                QualifiedBy(nested[m].items[i].name, namespaces[n].items[p].name)

\* C3: every run after the first writes the text the run before it wrote.
C3_RerunIdempotent ==
    \A r \in 1..(Len(outputs) - 1) : outputs[r + 1] = outputs[r]

NormItem(it) ==
    [uid |-> Fmt(it.uid), name |-> Fmt(it.name), type |-> Fmt(it.type),
     children |-> [c \in 1..Len(it.children) |->
                      [uid |-> Fmt(it.children[c].uid), name |-> Fmt(it.children[c].name),
                       type |-> Fmt(it.children[c].type), children |-> <<>>]]]

NormForest(f) ==
    [n \in 1..Len(f) |->
        [uid |-> Fmt(f[n].uid), name |-> Fmt(f[n].name), type |-> Fmt(f[n].type),
         items |-> [i \in 1..Len(f[n].items) |-> NormItem(f[n].items[i])]]]

\* C4: for the forest nest_items returned, parsing what write_toc makes of it
\* gives back the same namespaces, items and children, with the same uid, name
\* and type each (as written) and the same children under the same items.
C4_WriteParseRoundTrip ==
    Nested =>
        LET back == parse_toc(write_toc(nested))
        IN  /\ ~back.raised
            /\ NormForest(back.value) = NormForest(nested)

\* C5: when main has ended and the file does not exist, the exit status is 1,
\* the error is all that was printed and the file was neither read nor
\* written (nor created); when it has ended and the file exists, the file was
\* read once and written once and holds the transformed content.
C5_MainFileProtocol ==
    Terminated =>
        IF ~file.exists
        THEN /\ exitCode = 1
             /\ stdout = <<"Error: not found">>
             /\ reads = 0
             /\ writes = 0
        ELSE /\ reads = 1
             /\ writes = 1
             /\ file.text = write_toc(nest_items(parse_toc(content).value).value)

\* C6: once nest_items has returned, in every namespace whose parsed items are
\* three, named A, A.B and A.B.C in some order, the scanned item A has the one
\* child B (uid and type of A.B), the scanned item A.B has the one child C (uid
\* and type of A.B.C), A.B.C has none, and only A is left at the top level.
C6_SinglePassScan ==
    Nested =>
        \A n \in 1..Len(namespaces) :
            LET its == namespaces[n].items
            IN  (Len(its) = 3 /\ { its[i].name : i \in 1..3 } = {NameA, NameAB, NameABC}) =>
                    LET a == CHOOSE i \in 1..3 : its[i].name = NameA
                        b == CHOOSE i \in 1..3 : its[i].name = NameAB
                        c == CHOOSE i \in 1..3 : its[i].name = NameABC
                    IN  /\ scanned[n][a].children = <<Child(its[b], <<"B">>)>>
                        /\ scanned[n][b].children = <<Child(its[c], <<"C">>)>>
                        /\ scanned[n][c].children = <<>>
                        /\ Triples(scanned[n]) = Triples(its)
                        /\ nested[n].items = <<scanned[n][a]>>

\* C6 witness: nest_items has returned for a namespace listing A.B.C, A.B, A
\* in that order, and A.B (scanned after A.B.C) holds a child.
C6_Witness ==
    /\ pc = "write"
    /\ \E n \in 1..Len(namespaces) :
          /\ Len(namespaces[n].items) = 3
          /\ namespaces[n].items[1].name = NameABC
          /\ namespaces[n].items[2].name = NameAB
          /\ namespaces[n].items[3].name = NameA
          /\ scanned[n][2].children # <<>>

\* C7: parse_toc raises no error on the text main read.
C7_ParseNeverRaises ==
    ~parse_toc(content).raised

\* the item entry starts of a text, and what follows each up to the next
\* line that starts a namespace or an item
ItemStarts(t) == { k \in 1..Len(t) : IsEntry(t, k) /\ t[k].indent = 2 }

ItemStart(t, j) ==
    CHOOSE k \in ItemStarts(t) : Cardinality({ m \in ItemStarts(t) : m <= k }) = j

FirstItemField(t, k, tag) ==
    LET stop == { m \in (k + 1)..Len(t) : IsEntry(t, m) /\ t[m].indent \in {0, 2} }
        hits == { m \in (k + 1)..Len(t) :
                    /\ t[m].tag = tag
                    /\ t[m].indent = 4
                    /\ \A e \in stop : m < e }
    IN  IF hits = {} THEN None
        ELSE t[CHOOSE m \in hits : \A h \in hits : m <= h].val

RECURSIVE FlatItems(_, _)
FlatItems(f, n) ==
    IF n > Len(f) THEN <<>> ELSE f[n].items \o FlatItems(f, n + 1)

\* C8: once parse_toc has returned, every item's name is the value of the
\* first indentation-4 'name:' line after its entry start (None when there is
\* none), and its type that of the first such 'type:' line.
C8_ItemFieldsFirstWins ==
    pc = "nest" =>
        LET flat == FlatItems(namespaces, 1)
        IN  \A j \in 1..Len(flat) :
                /\ flat[j].name = FirstItemField(content, ItemStart(content, j), "name:")
                /\ flat[j].type = FirstItemField(content, ItemStart(content, j), "type:")

\* C9: whatever the file holds, once parse_toc has returned a forest the rest
\* of the pipeline does not raise (the parser's own errors are C7's).
C9_PipelineNeverRaises ==
    ~(pc = "raised" /\ ~parse_toc(content).raised)

\* C10: once main is done, every parsed item's uid is the uid of exactly one
\* entry below the top level of its namespace in the text written.
C10_ItemsConserved ==
    pc = "done" =>
        \A n \in 1..Len(namespaces) :
            \A i \in 1..Len(namespaces[n].items) :
                Cardinality({ k \in EntryLines(file.text) :
                                /\ NamespaceIndex(file.text, k) = n
                                /\ file.text[k].indent > 0
                                /\ file.text[k].val = Fmt(namespaces[n].items[i].uid) }) = 1

====
